---- MODULE Spec2Model ----
(***************************************************************************)
(* Model of CDtire/extract_element_sets.py: parse_inp (the single forward  *)
(* pass over the lines of the mesh file) and main (existence check, read,  *)
(* parse, write of the three sections, re-read, whole-word substitution,   *)
(* overwrite).  Text is modelled as sequences of one-character strings, so *)
(* that strip, lower, startswith, split, the elset regular expression and  *)
(* the \bS[1-4]\b substitution are computed character by character.        *)
(***************************************************************************)
EXTENDS Integers, Sequences, FiniteSets, TLC

VARIABLES
    inFile,      \* the input file 0_axi_mesh_xpl.inp: [exists, data]
    outFile,     \* the output file element_sets.inc:  [exists, data]
    preOut,      \* outFile as it was before the run (history variable)
    pc,          \* position of the run inside main / parse_inp
    lines,       \* main: lines = f.readlines()
    i,           \* parse_inp: cursor of the outer loop (0-based, as in the source)
    j,           \* parse_inp: cursor of the block loop (0-based)
    block,       \* parse_inp: the block being collected
    elsets,      \* parse_inp: elsets, then main: elsets (after unique)
    surf_names,  \* parse_inp: surf_names, then main: surf_names (after unique)
    surfaces,    \* parse_inp / main: surfaces
    embeds,      \* parse_inp / main: embeds
    k,           \* main: number of out.write / out.writelines calls already made
    text,        \* main: text
    stdout       \* what main has printed: "", "Error" or "Done"

vars == <<inFile, outFile, preOut, pc, lines, i, j, block, elsets, surf_names,
          surfaces, embeds, k, text, stdout>>

----------------------------------------------------------------------------
(* Bounds of the model *)

\* largest number of lines of the input file
MaxLines == 3
\* largest length of a free text handed to the substitution alone
MaxText == 5

----------------------------------------------------------------------------
(* Characters and str methods *)

\* str.isspace characters that occur in the model
Whitespace == {" ", "\t", "\n", "\r"}

UpperCase == <<"A","B","C","D","E","F","G","H","I","J","K","L","M",
               "N","O","P","Q","R","S","T","U","V","W","X","Y","Z">>
LowerCase == <<"a","b","c","d","e","f","g","h","i","j","k","l","m",
               "n","o","p","q","r","s","t","u","v","w","x","y","z">>
Digits == {"0","1","2","3","4","5","6","7","8","9"}

\* \w of the re module: letters, digits and the underscore
WordChars == {UpperCase[p] : p \in 1..26} \cup {LowerCase[p] : p \in 1..26}
             \cup Digits \cup {"_"}

\* the lower-case letter of every upper-case letter
LowerTable ==
    [c \in {UpperCase[p] : p \in 1..26} |->
        LowerCase[CHOOSE p \in 1..26 : UpperCase[p] = c]]

\* str.lower on one character
LowerChar(c) == IF c \in DOMAIN LowerTable THEN LowerTable[c] ELSE c

\* str.lower
Lower(s) == [p \in 1..Len(s) |-> LowerChar(s[p])]

\* str.lstrip()
RECURSIVE LStrip(_)
LStrip(s) ==
    IF s # <<>> /\ Head(s) \in Whitespace THEN LStrip(Tail(s)) ELSE s

\* str.rstrip()
RECURSIVE RStrip(_)
RStrip(s) ==
    IF s # <<>> /\ s[Len(s)] \in Whitespace
    THEN RStrip(SubSeq(s, 1, Len(s) - 1))
    ELSE s

\* str.strip()
Strip(s) == RStrip(LStrip(s))

\* str.startswith(prefix)
StartsWith(s, prefix) ==
    /\ Len(s) >= Len(prefix)
    /\ SubSeq(s, 1, Len(prefix)) = prefix

\* `sub in s` for strings
Contains(s, sub) ==
    \E p \in 0..(Len(s) - Len(sub)) : SubSeq(s, p + 1, p + Len(sub)) = sub

\* s.split(',')[0]: the text before the first comma (the whole text without one)
RECURSIVE FirstField(_)
FirstField(s) ==
    IF s = <<>> \/ Head(s) = "," THEN <<>>
    ELSE <<Head(s)>> \o FirstField(Tail(s))

\* "".join(seq): the concatenation of a sequence of strings
RECURSIVE Concat(_)
Concat(ss) == IF ss = <<>> THEN <<>> ELSE Head(ss) \o Concat(Tail(ss))

\* f.readlines(): the text cut after every "\n"; a last line without "\n" is kept
ReadLines(t) ==
    LET ends == {p \in 1..Len(t) : t[p] = "\n"}
        count == Cardinality(ends)
        EndOf(r) == CHOOSE p \in ends : Cardinality({q \in ends : q <= p}) = r
        StartOf(r) == IF r = 1 THEN 1 ELSE EndOf(r - 1) + 1
        whole == [r \in 1..count |-> SubSeq(t, StartOf(r), EndOf(r))]
        last == IF count = 0 THEN 0 ELSE EndOf(count)
    IN  IF last < Len(t) THEN Append(whole, SubSeq(t, last + 1, Len(t)))
        ELSE whole

----------------------------------------------------------------------------
(* Classification of a line, parse_inp *)

\* lines[j].lstrip().startswith('*'): the line is a directive line
IsDirective(line) == StartsWith(LStrip(line), <<"*">>)

\* low.startswith('*elset')
IsElset(line) ==
    StartsWith(Lower(Strip(line)), <<"*","e","l","s","e","t">>)

\* Mutant of IsSurfaceBody: the prefix is tested without its comma
IsSurfaceBodyNoComma(line) ==
    StartsWith(Lower(Strip(line)), <<"*","s","u","r","f","a","c","e">>)

\* low.startswith('*surface,')
IsSurfaceBody(line) ==
    StartsWith(Lower(Strip(line)), <<"*","s","u","r","f","a","c","e",",">>)

\* the elif of the surface branch: reached only when the elset test failed
IsSurface(line) == ~IsElset(line) /\ IsSurfaceBody(line)

\* 'embed' in low
IsEmbedBody(line) == Contains(Lower(Strip(line)), <<"e","m","b","e","d">>)

\* the elif of the embed branch: reached only when both tests before it failed
IsEmbed(line) == ~IsElset(line) /\ ~IsSurfaceBody(line) /\ IsEmbedBody(line)

\* \s* of the pattern: the first position at or after p that holds no whitespace
RECURSIVE SkipSpace(_, _)
SkipSpace(s, p) ==
    IF p <= Len(s) /\ s[p] \in Whitespace THEN SkipSpace(s, p + 1) ELSE p

\* [^,]+ taken greedily from position p: the position after the last character
RECURSIVE SkipNonComma(_, _)
SkipNonComma(s, p) ==
    IF p <= Len(s) /\ s[p] # "," THEN SkipNonComma(s, p + 1) ELSE p

\* The pattern elset\s*=\s*([^,]+) (re.I) tried at position p.  After the "=",
\* \s* and [^,]+ share the run of characters up to the next comma; the match
\* fails only when that run is empty, and group(1).strip() is the stripped run
\* (backtracking leaves the group one blank when the run is all blanks).
ElsetMatchAt(s, p) ==
    LET q == SkipSpace(s, p + 5)
    IN  /\ p + 4 <= Len(s)
        /\ Lower(SubSeq(s, p, p + 4)) = <<"e","l","s","e","t">>
        /\ q <= Len(s)
        /\ s[q] = "="
        /\ SkipNonComma(s, q + 1) > q + 1

\* m.group(1).strip() of the match at position p
ElsetGroupAt(s, p) ==
    LET q == SkipSpace(s, p + 5)
    IN  Strip(SubSeq(s, q + 1, SkipNonComma(s, q + 1) - 1))

\* re.search: m is not None
ElsetMatches(line) == \E p \in 1..Len(Strip(line)) : ElsetMatchAt(Strip(line), p)

\* re.search on the stripped line: the value of the leftmost match
ElsetName(line) ==
    LET s == Strip(line)
        first == CHOOSE p \in 1..Len(s) :
                     /\ ElsetMatchAt(s, p)
                     /\ \A r \in 1..(p - 1) : ~ElsetMatchAt(s, r)
    IN  ElsetGroupAt(s, first)

\* parts[0].strip() of a data line
SurfaceField(line) == Strip(FirstField(line))

\* unique(seq): the first occurrence of each value, in order
RECURSIVE Unique(_, _)
Unique(seq, seen) ==
    IF seq = <<>> THEN <<>>
    ELSE IF Head(seq) \in seen
         THEN Unique(Tail(seq), seen)
         ELSE <<Head(seq)>> \o Unique(Tail(seq), seen \cup {Head(seq)})

----------------------------------------------------------------------------
(* Output assembly and substitution, main *)

\* number of dashes of the separator line
MarkerDashes == 70

\* "**----...----\n", the separator written after every section and block
Marker == <<"*", "*">> \o [p \in 1..MarkerDashes |-> "-"] \o <<"\n">>

\* name + "\n"
NameLine(name) == Append(name, "\n")

\* for block in blocks: out.writelines(block); out.write(marker)
RECURSIVE BlockCalls(_)
BlockCalls(blocks) ==
    IF blocks = <<>> THEN <<>>
    ELSE <<Concat(Head(blocks)), Marker>> \o BlockCalls(Tail(blocks))

\* The arguments of the out.write / out.writelines calls of the with-block,
\* in the order the calls are made
OutputCalls(es, sn, sf, em) ==
    [p \in 1..Len(es) |-> NameLine(es[p])] \o <<Marker>>
    \o [p \in 1..Len(sn) |-> NameLine(sn[p])] \o <<Marker>>
    \o BlockCalls(sf) \o BlockCalls(em)

\* mapping
mapping ==
    (<<"S","1">> :> <<"S","3">>) @@ (<<"S","2">> :> <<"S","4">>) @@
    (<<"S","3">> :> <<"S","5">>) @@ (<<"S","4">> :> <<"S","6">>)

\* replace_surface: mapping.get(val, val)
replace_surface(val) == IF val \in DOMAIN mapping THEN mapping[val] ELSE val

\* \bS[1-4]\b matches the two characters at positions p, p+1 of t
TokenAt(t, p) ==
    /\ p + 1 <= Len(t)
    /\ t[p] = "S"
    /\ t[p + 1] \in {"1", "2", "3", "4"}
    /\ (p = 1 \/ t[p - 1] \notin WordChars)
    /\ (p + 1 = Len(t) \/ t[p + 2] \notin WordChars)

\* re.sub: from position p, find the next match, copy the text before it,
\* put the replacement and go on after the match; copy the rest of the text
RECURSIVE SubFrom(_, _)
SubFrom(t, p) ==
    LET hits == {q \in p..Len(t) : TokenAt(t, q)}
    IN  IF hits = {} THEN SubSeq(t, p, Len(t))
        ELSE LET q == CHOOSE q \in hits : \A r \in hits : q <= r
             IN  SubSeq(t, p, q - 1) \o replace_surface(SubSeq(t, q, q + 1))
                     \o SubFrom(t, q + 2)

\* one rule of the table applied to the whole text, as a pass of its own
RECURSIVE SubOne(_, _, _, _)
SubOne(t, p, from, to) ==
    LET hits == {q \in p..Len(t) : TokenAt(t, q) /\ SubSeq(t, q, q + 1) = from}
    IN  IF hits = {} THEN SubSeq(t, p, Len(t))
        ELSE LET q == CHOOSE q \in hits : \A r \in hits : q <= r
             IN  SubSeq(t, p, q - 1) \o to \o SubOne(t, q + 2, from, to)

\* Mutant of ReSub: the four rules applied one after the other, each on the
\* result of the one before
ReSubCascading(t) ==
    SubOne(SubOne(SubOne(SubOne(t, 1, <<"S","1">>, <<"S","3">>),
                         1, <<"S","2">>, <<"S","4">>),
                  1, <<"S","3">>, <<"S","5">>),
           1, <<"S","4">>, <<"S","6">>)

\* re.sub(r'\bS[1-4]\b', replace_surface, text)
ReSub(t) == SubFrom(t, 1)

----------------------------------------------------------------------------
(* Inputs *)

L_ElsetA == <<"*","E","l","s","e","t",","," ","e","l","s","e","t","=","A">>
L_ElsetS3 == <<"*","E","L","S","E","T",",","E","L","S","E","T","=","S","3">>
L_ElsetBlank == <<"*","e","l","s","e","t",","," ","e","l","s","e","t","="," ",",","g">>
L_ElsetEmbed == <<"*","E","l","s","e","t",","," ","e","l","s","e","t","=","e","m","b","e","d">>
L_Surface == <<"*","S","u","r","f","a","c","e",","," ","n","a","m","e","=","C">>
L_SurfSection == <<"*","S","u","r","f","a","c","e"," ","S","e","c","t","i","o","n",","," ","e","l","s","e","t","=","A">>
L_SurfInteraction == <<"*","S","u","r","f","a","c","e"," ","I","n","t","e","r","a","c","t","i","o","n",","," ","n","a","m","e","=","I">>
L_DataP1 == <<"P","1",","," ","S","1">>
L_DataNoName == <<" ",","," ","S","2">>
L_DataS4 == <<"S","4",","," ","S","1">>
L_Embedded == <<"*","E","m","b","e","d","d","e","d"," ","E","l","e","m","e","n","t">>
L_DataEmbed == <<"e","m","b","e","d","A",","," ","2">>
L_Node == <<"*","N","o","d","e">>

\* the lines of the input texts parse_inp is called on (without their line ends)
ParseCatalogue ==
    {L_ElsetA, L_ElsetBlank, L_ElsetEmbed, L_Surface, L_SurfSection,
     L_SurfInteraction, L_DataP1, L_DataNoName, L_Embedded, L_DataEmbed}

\* the lines of the input files main is run on (without their line ends)
MainCatalogue ==
    {L_ElsetA, L_ElsetS3, L_Surface, L_DataP1, L_DataS4, L_Embedded, L_Node}

LineSeqs(cat) == UNION {[1..m -> cat] : m \in 0..MaxLines}

\* the text of a file of these lines; the last line ends in "\n" iff nl
FileText(ls, nl) ==
    Concat([p \in 1..Len(ls) |->
               IF p < Len(ls) \/ nl THEN Append(ls[p], "\n") ELSE ls[p]])

InputTexts(cat) == {FileText(ls, nl) : ls \in LineSeqs(cat), nl \in BOOLEAN}

NoFile == [exists |-> FALSE, data |-> <<>>]
File(t) == [exists |-> TRUE, data |-> t]

\* a file left by an earlier run
OldText == <<"o","l","d","\n">>

\* characters of the free texts handed to the substitution
SubAlphabet == {"S", "1", "2", "3", "4", " ", "x"}

\* the text "S1 S2 S3 S4" and what the table makes of it
ExampleIn == <<"S","1"," ","S","2"," ","S","3"," ","S","4">>
ExampleOut == <<"S","3"," ","S","4"," ","S","5"," ","S","6">>

SubTexts == UNION {[1..m -> SubAlphabet] : m \in 0..MaxText} \cup {ExampleIn}

----------------------------------------------------------------------------
(* main and parse_inp as a state machine *)

\* n = len(lines)
n == Len(lines)

\* Mutant of InputPresent: the existence test always succeeds
InputAlwaysPresent(f) == TRUE

\* os.path.isfile(input_file)
InputPresent(f) == f.exists

\* Mutant of CursorAfterBlock: i = j, so that the i += 1 skips the line at j
CursorSkipsDirective(jj) == jj + 1

\* i = j - 1 at the end of a block, followed by the i += 1 of the outer loop
CursorAfterBlock(jj) == (jj - 1) + 1

\* the condition of the block loop: j < n and not lines[j].lstrip().startswith('*')
InBlock(ls, jj) == jj < Len(ls) /\ ~IsDirective(ls[jj + 1])

\* the locals of parse_inp at its first line
ParseLocals ==
    /\ i = 0
    /\ j = 0
    /\ block = <<>>
    /\ elsets = <<>>
    /\ surf_names = <<>>
    /\ surfaces = <<>>
    /\ embeds = <<>>

Init ==
    /\ inFile \in {NoFile} \cup {File(t) : t \in InputTexts(MainCatalogue)}
    /\ outFile \in {NoFile, File(OldText)}
    /\ preOut = outFile
    /\ pc = "start"
    /\ lines = <<>>
    /\ ParseLocals
    /\ k = 0
    /\ text = <<>>
    /\ stdout = ""

\* main, lines 83-85: the input file is missing, print the error and return
InputMissing ==
    /\ pc = "start"
    /\ ~InputPresent(inFile)
    /\ pc' = "done"
    /\ stdout' = "Error"
    /\ UNCHANGED <<inFile, outFile, preOut, lines, i, j, block, elsets,
                   surf_names, surfaces, embeds, k, text>>

\* Mutant of ReadInput: the output file is opened for writing before the pass
ReadInputOpeningOutput ==
    /\ pc = "start"
    /\ InputPresent(inFile)
    /\ lines' = ReadLines(inFile.data)
    /\ outFile' = File(<<>>)
    /\ pc' = "parse"
    /\ UNCHANGED <<inFile, preOut, i, j, block, elsets, surf_names,
                   surfaces, embeds, k, text, stdout>>

\* main, lines 87-90: read the lines and enter parse_inp
ReadInput ==
    /\ pc = "start"
    /\ InputPresent(inFile)
    /\ lines' = ReadLines(inFile.data)
    /\ pc' = "parse"
    /\ UNCHANGED <<inFile, outFile, preOut, i, j, block, elsets, surf_names,
                   surfaces, embeds, k, text, stdout>>

\* parse_inp, lines 36-39 and 64: an *elset line
ParseElset ==
    /\ pc = "parse"
    /\ i < n
    /\ IsElset(lines[i + 1])
    /\ elsets' = IF ElsetMatches(lines[i + 1])
                 THEN Append(elsets, ElsetName(lines[i + 1]))
                 ELSE elsets
    /\ i' = i + 1
    /\ UNCHANGED <<inFile, outFile, preOut, pc, lines, j, block, surf_names,
                   surfaces, embeds, k, text, stdout>>

\* parse_inp, lines 42-44: a *surface, line opens a block
SurfaceBegin ==
    /\ pc = "parse"
    /\ i < n
    /\ IsSurface(lines[i + 1])
    /\ block' = <<lines[i + 1]>>
    /\ j' = i + 1
    /\ pc' = "surface"
    /\ UNCHANGED <<inFile, outFile, preOut, lines, i, elsets, surf_names,
                   surfaces, embeds, k, text, stdout>>

\* parse_inp, lines 45-50: one data line of a surface block
SurfaceData ==
    /\ pc = "surface"
    /\ InBlock(lines, j)
    /\ block' = Append(block, lines[j + 1])
    /\ surf_names' = IF SurfaceField(lines[j + 1]) # <<>>
                     THEN Append(surf_names, SurfaceField(lines[j + 1]))
                     ELSE surf_names
    /\ j' = j + 1
    /\ UNCHANGED <<inFile, outFile, preOut, pc, lines, i, elsets, surfaces,
                   embeds, k, text, stdout>>

\* parse_inp, lines 51-52 and 64: the surface block ends
SurfaceEnd ==
    /\ pc = "surface"
    /\ ~InBlock(lines, j)
    /\ surfaces' = Append(surfaces, block)
    /\ i' = CursorAfterBlock(j)
    /\ pc' = "parse"
    /\ UNCHANGED <<inFile, outFile, preOut, lines, j, block, elsets,
                   surf_names, embeds, k, text, stdout>>

\* parse_inp, lines 55-57: a line containing embed opens a block
EmbedBegin ==
    /\ pc = "parse"
    /\ i < n
    /\ IsEmbed(lines[i + 1])
    /\ block' = <<lines[i + 1]>>
    /\ j' = i + 1
    /\ pc' = "embed"
    /\ UNCHANGED <<inFile, outFile, preOut, lines, i, elsets, surf_names,
                   surfaces, embeds, k, text, stdout>>

\* parse_inp, lines 58-60: one data line of an embed block
EmbedData ==
    /\ pc = "embed"
    /\ InBlock(lines, j)
    /\ block' = Append(block, lines[j + 1])
    /\ j' = j + 1
    /\ UNCHANGED <<inFile, outFile, preOut, pc, lines, i, elsets, surf_names,
                   surfaces, embeds, k, text, stdout>>

\* parse_inp, lines 61-62 and 64: the embed block ends
EmbedEnd ==
    /\ pc = "embed"
    /\ ~InBlock(lines, j)
    /\ embeds' = Append(embeds, block)
    /\ i' = CursorAfterBlock(j)
    /\ pc' = "parse"
    /\ UNCHANGED <<inFile, outFile, preOut, lines, j, block, elsets,
                   surf_names, surfaces, k, text, stdout>>

\* parse_inp, line 64 alone: a line of none of the three kinds
ParseOther ==
    /\ pc = "parse"
    /\ i < n
    /\ ~IsElset(lines[i + 1])
    /\ ~IsSurface(lines[i + 1])
    /\ ~IsEmbed(lines[i + 1])
    /\ i' = i + 1
    /\ UNCHANGED <<inFile, outFile, preOut, pc, lines, j, block, elsets,
                   surf_names, surfaces, embeds, k, text, stdout>>

\* parse_inp, lines 66-76: the loop is over, return the deduplicated lists
ParseReturn ==
    /\ pc = "parse"
    /\ ~(i < n)
    /\ elsets' = Unique(elsets, {})
    /\ surf_names' = Unique(surf_names, {})
    /\ pc' = "open_out"
    /\ UNCHANGED <<inFile, outFile, preOut, lines, i, j, block, surfaces,
                   embeds, k, text, stdout>>

\* main, line 93: open(output_file, 'w') creates or truncates the file
OpenOutput ==
    /\ pc = "open_out"
    /\ outFile' = File(<<>>)
    /\ k' = 0
    /\ pc' = "writing"
    /\ UNCHANGED <<inFile, preOut, lines, i, j, block, elsets, surf_names,
                   surfaces, embeds, text, stdout>>

\* main, lines 95-110: the next out.write / out.writelines call
WriteCall ==
    /\ pc = "writing"
    /\ k < Len(OutputCalls(elsets, surf_names, surfaces, embeds))
    /\ outFile' = File(outFile.data
                       \o OutputCalls(elsets, surf_names, surfaces, embeds)[k + 1])
    /\ k' = k + 1
    /\ UNCHANGED <<inFile, preOut, pc, lines, i, j, block, elsets, surf_names,
                   surfaces, embeds, text, stdout>>

\* main, line 110/112: the with-block is left, the file is closed
CloseOutput ==
    /\ pc = "writing"
    /\ k = Len(OutputCalls(elsets, surf_names, surfaces, embeds))
    /\ pc' = "reread"
    /\ UNCHANGED <<inFile, outFile, preOut, lines, i, j, block, elsets,
                   surf_names, surfaces, embeds, k, text, stdout>>

\* main, lines 113-114: text = f.read()
ReadBack ==
    /\ pc = "reread"
    /\ text' = outFile.data
    /\ pc' = "sub"
    /\ UNCHANGED <<inFile, outFile, preOut, lines, i, j, block, elsets,
                   surf_names, surfaces, embeds, k, stdout>>

\* main, lines 117-129: text = re.sub(...)
Substitute ==
    /\ pc = "sub"
    /\ text' = ReSub(text)
    /\ pc' = "open_final"
    /\ UNCHANGED <<inFile, outFile, preOut, lines, i, j, block, elsets,
                   surf_names, surfaces, embeds, k, stdout>>

\* main, line 131: open(output_file, 'w') truncates the file
OpenFinal ==
    /\ pc = "open_final"
    /\ outFile' = File(<<>>)
    /\ pc' = "write_final"
    /\ UNCHANGED <<inFile, preOut, lines, i, j, block, elsets, surf_names,
                   surfaces, embeds, k, text, stdout>>

\* main, lines 132-134: f.write(text), close, print the success message
WriteFinal ==
    /\ pc = "write_final"
    /\ outFile' = File(outFile.data \o text)
    /\ pc' = "done"
    /\ stdout' = "Done"
    /\ UNCHANGED <<inFile, preOut, lines, i, j, block, elsets, surf_names,
                   surfaces, embeds, k, text>>

Parse ==
    \/ ParseElset
    \/ SurfaceBegin
    \/ SurfaceData
    \/ SurfaceEnd
    \/ EmbedBegin
    \/ EmbedData
    \/ EmbedEnd
    \/ ParseOther
    \/ ParseReturn

Next ==
    \/ InputMissing
    \/ ReadInput
    \/ Parse
    \/ OpenOutput
    \/ WriteCall
    \/ CloseOutput
    \/ ReadBack
    \/ Substitute
    \/ OpenFinal
    \/ WriteFinal

\* a run of main
Spec == Init /\ [][Next]_vars

\* parse_inp called on the lines of an input text
InitParse ==
    /\ inFile \in {File(t) : t \in InputTexts(ParseCatalogue)}
    /\ outFile = NoFile
    /\ preOut = outFile
    /\ pc = "parse"
    /\ lines = ReadLines(inFile.data)
    /\ ParseLocals
    /\ k = 0
    /\ text = <<>>
    /\ stdout = ""

SpecParse == InitParse /\ [][Parse]_vars

\* the post-processing of main on an output file holding any short text
InitSub ==
    /\ inFile = File(<<>>)
    /\ outFile \in {File(t) : t \in SubTexts}
    /\ preOut = NoFile
    /\ pc = "reread"
    /\ lines = <<>>
    /\ ParseLocals
    /\ k = 0
    /\ text = <<>>
    /\ stdout = ""

NextSub ==
    \/ ReadBack
    \/ Substitute
    \/ OpenFinal
    \/ WriteFinal

SpecSub == InitSub /\ [][NextSub]_vars

----------------------------------------------------------------------------
(* Vocabulary of the properties: the input as the specification describes it *)

\* the first non-whitespace character of the line is "*"
FirstIsStar(line) ==
    \E q \in 1..Len(line) :
        /\ line[q] = "*"
        /\ \A r \in 1..(q - 1) : line[r] \in Whitespace

\* the line without its leading and trailing whitespace, in lower case
Trimmed(line) ==
    LET inner == {q \in 1..Len(line) : line[q] \notin Whitespace}
    IN  IF inner = {} THEN <<>>
        ELSE LET lo == CHOOSE q \in inner : \A r \in inner : q <= r
                 hi == CHOOSE q \in inner : \A r \in inner : r <= q
             IN  [q \in 1..(hi - lo + 1) |-> LowerChar(line[lo + q - 1])]

\* the trimmed lower-case line begins with the word w
Begins(line, w) ==
    /\ Len(Trimmed(line)) >= Len(w)
    /\ \A q \in 1..Len(w) : Trimmed(line)[q] = w[q]

\* a directive of the literal form *surface,
LiteralSurface(line) == Begins(line, <<"*","s","u","r","f","a","c","e",",">>)

\* a directive of the form *elset...
ElsetDirective(line) == Begins(line, <<"*","e","l","s","e","t">>)

\* a directive of the form *Surface Section ... or *Surface Interaction ...
SectionOrInteraction(line) ==
    \/ Begins(line, <<"*","s","u","r","f","a","c","e"," ","s","e","c","t","i","o","n">>)
    \/ Begins(line, <<"*","s","u","r","f","a","c","e"," ",
                      "i","n","t","e","r","a","c","t","i","o","n">>)

\* the line holds the letters embed, in any case
MentionsEmbed(line) ==
    \E q \in 1..Len(line) :
        /\ q + 4 <= Len(line)
        /\ [r \in 1..5 |-> LowerChar(line[q + r - 1])] = <<"e","m","b","e","d">>

\* the positions of the *surface, directives of the input
SurfaceStarts == {p \in 1..n : LiteralSurface(lines[p])}

\* the last line of the block that the directive at position p opens
BlockEnd(p) ==
    CHOOSE e \in p..n :
        /\ \A q \in (p + 1)..e : ~FirstIsStar(lines[q])
        /\ e = n \/ FirstIsStar(lines[e + 1])

\* the directive line that the data line at position p follows (0: there is none)
Owner(p) ==
    LET before == {r \in 1..(p - 1) : FirstIsStar(lines[r])}
    IN  IF before = {} THEN 0
        ELSE CHOOSE r \in before : \A q \in before : q <= r

\* the line at p is a data line of a directive of none of the three kinds
Orphan(p) ==
    /\ ~FirstIsStar(lines[p])
    /\ Owner(p) # 0
    /\ ~ElsetDirective(lines[Owner(p)])
    /\ ~LiteralSurface(lines[Owner(p)])
    /\ ~MentionsEmbed(lines[Owner(p)])

\* parse_inp has returned
Returned == pc = "open_out"

----------------------------------------------------------------------------
(* Properties of parse_inp *)

\* C6: parse_inp returns in surface_blocks exactly one block per *surface,
\* directive line, in file order and without deduplication; each block is the
\* directive line followed by the lines up to, not including, the next line
\* whose first non-whitespace character is "*"; and the cursor leaves a block
\* on the line that ended it, so that this directive is classified next.
C6_SurfaceBlocks ==
    /\ [](Returned =>
            /\ Len(surfaces) = Cardinality(SurfaceStarts)
            /\ \A p \in SurfaceStarts :
                   surfaces[Cardinality({q \in SurfaceStarts : q <= p})]
                       = SubSeq(lines, p, BlockEnd(p)))
    /\ [][(pc \in {"surface", "embed"} /\ pc' = "parse") =>
            /\ i' = j
            /\ (j < n => FirstIsStar(lines[j + 1]))]_vars

\* C6 witness: two blocks were returned, the first with a data line and ended
\* by the directive that opens the second
C6_Witness ==
    /\ Returned
    /\ Len(surfaces) = 2
    /\ Len(surfaces[1]) = 2
    /\ surfaces[2][1] = lines[3]

\* C7: a *Surface Section or *Surface Interaction directive and the data lines
\* that follow it add nothing to the surface-name list or the surface-block
\* list: every returned block opens with a literal *surface, line, and every
\* returned name is the first field of a data line owned by such a line.
C7_OnlyLiteralSurface ==
    Returned =>
        /\ \A b \in 1..Len(surfaces) :
               /\ LiteralSurface(surfaces[b][1])
               /\ ~SectionOrInteraction(surfaces[b][1])
        /\ \A q \in 1..Len(surf_names) :
               \E p \in 1..n :
                   /\ ~FirstIsStar(lines[p])
                   /\ Owner(p) # 0
                   /\ LiteralSurface(lines[Owner(p)])
                   /\ SurfaceField(lines[p]) = surf_names[q]
        /\ (SurfaceStarts = {} => surfaces = <<>> /\ surf_names = <<>>)

\* C7 witness: a *Surface Section line with a named data line was parsed and
\* nothing was returned for it
C7_Witness ==
    /\ Returned
    /\ n >= 2
    /\ SectionOrInteraction(lines[1])
    /\ ~FirstIsStar(lines[2])
    /\ SurfaceField(lines[2]) # <<>>
    /\ surfaces = <<>>
    /\ surf_names = <<>>

\* C8: while the outer loop stands on a data line of a directive of none of
\* the three kinds, nothing is added to elset_names, surface_names,
\* surface_blocks or embed_blocks.
C8_OrphanDataNoEffect ==
    [][(pc \in {"parse", "surface", "embed"} /\ i < n /\ Orphan(i + 1)) =>
          UNCHANGED <<elsets, surf_names, surfaces, embeds>>]_vars

\* C9: the element-set name list never contains the empty string.
C9_NoEmptyElsetName ==
    \A p \in 1..Len(elsets) : elsets[p] # <<>>

----------------------------------------------------------------------------
(* Vocabulary of the properties: the output as the specification describes it *)

\* a is a prefix of b
IsPrefix(a, b) == Len(a) <= Len(b) /\ SubSeq(b, 1, Len(a)) = a

\* a occurs in b
Occurs(a, b) ==
    \E p \in 0..(Len(b) - Len(a)) : SubSeq(b, p + 1, p + Len(a)) = a

\* the whole-word token S1, S2, S3 or S4 stands at positions p, p+1 of t
WholeToken(t, p) ==
    /\ p >= 1
    /\ p + 1 <= Len(t)
    /\ SubSeq(t, p, p + 1) \in {<<"S","1">>, <<"S","2">>, <<"S","3">>, <<"S","4">>}
    /\ (p > 1 => t[p - 1] \notin WordChars)
    /\ (p + 2 <= Len(t) => t[p + 2] \notin WordChars)

\* the digit two above
TwoAbove(d) == CASE d = "1" -> "3" [] d = "2" -> "4" [] d = "3" -> "5" [] d = "4" -> "6"

\* t with the digit of every whole-word token raised by two, all else as it is
Renumbered(t) ==
    [p \in 1..Len(t) |-> IF WholeToken(t, p - 1) THEN TwoAbove(t[p]) ELSE t[p]]

\* the three sections of section 4.1 step 8, built from the returned lists
ExpectedText ==
    Concat([p \in 1..Len(elsets) |-> elsets[p] \o <<"\n">>]) \o Marker
    \o Concat([p \in 1..Len(surf_names) |-> surf_names[p] \o <<"\n">>]) \o Marker
    \o Concat([b \in 1..Len(surfaces) |-> Concat(surfaces[b]) \o Marker])
    \o Concat([b \in 1..Len(embeds) |-> Concat(embeds[b]) \o Marker])

\* a complete run of main on an existing input
Finished == pc = "done" /\ inFile.exists

\* the lines of the output file
OutLines == ReadLines(outFile.data)

\* the positions of the separator lines of the output file
MarkerLines == {p \in 1..Len(OutLines) : OutLines[p] = Marker}

\* the r-th separator line of the output file
MarkerAt(r) ==
    CHOOSE p \in MarkerLines : Cardinality({q \in MarkerLines : q <= p}) = r

\* the element-set section: the lines before the first separator
ElsetSection == SubSeq(OutLines, 1, MarkerAt(1) - 1)

\* the surface-name section: the lines between the first two separators
SurfaceNameSection == SubSeq(OutLines, MarkerAt(1) + 1, MarkerAt(2) - 1)

\* the block section: the text after the second separator
BlockSection == Concat(SubSeq(OutLines, MarkerAt(2) + 1, Len(OutLines)))

\* how often the name stands as a line of the section
Times(name, section) ==
    Cardinality({q \in 1..Len(section) : section[q] = Append(name, "\n")})

\* the line of the section that holds the name
LineOf(name, section) ==
    CHOOSE q \in 1..Len(section) : section[q] = Append(name, "\n")

\* the positions of the *elset directives that declare a name
Declarations == {p \in 1..n : ElsetDirective(lines[p]) /\ ElsetMatches(lines[p])}

\* the positions of the data lines of *surface, blocks that carry a name
NamedData ==
    {q \in 1..n : /\ ~FirstIsStar(lines[q])
                  /\ Owner(q) # 0
                  /\ LiteralSurface(lines[Owner(q)])
                  /\ SurfaceField(lines[q]) # <<>>}

----------------------------------------------------------------------------
(* Properties of main *)

\* C1: every element-set name declared by an *elset directive appears exactly
\* once in the element-set section of the final output file, and the names
\* appear there in the order of their first declaration.
C1_ElsetOnceInOrder ==
    Finished =>
        /\ \A p \in Declarations : Times(ElsetName(lines[p]), ElsetSection) = 1
        /\ \A p, q \in Declarations :
               (/\ p < q
                /\ ElsetName(lines[p]) # ElsetName(lines[q])
                /\ \A r \in Declarations :
                       r < q => ElsetName(lines[r]) # ElsetName(lines[q]))
               => LineOf(ElsetName(lines[p]), ElsetSection)
                      < LineOf(ElsetName(lines[q]), ElsetSection)

\* C2: a directive line that contains embed is returned by parse_inp as an
\* embed block with its data lines, and the block stands verbatim in the block
\* section of the final output file.
C2_EmbedVerbatim ==
    Finished =>
        \A p \in 1..n :
            (FirstIsStar(lines[p]) /\ MentionsEmbed(lines[p])) =>
                /\ \E b \in 1..Len(embeds) :
                       embeds[b] = SubSeq(lines, p, BlockEnd(p))
                /\ Occurs(Concat(SubSeq(lines, p, BlockEnd(p))), BlockSection)

\* C4: the trimmed non-empty first field of every data line of a *surface,
\* block appears exactly once in the surface-name section of the final output
\* file, in first-seen order.
C4_SurfaceNamesInOutput ==
    Finished =>
        /\ \A q \in NamedData :
               Times(SurfaceField(lines[q]), SurfaceNameSection) = 1
        /\ \A p, q \in NamedData :
               (/\ p < q
                /\ SurfaceField(lines[p]) # SurfaceField(lines[q])
                /\ \A r \in NamedData :
                       r < q => SurfaceField(lines[r]) # SurfaceField(lines[q]))
               => LineOf(SurfaceField(lines[p]), SurfaceNameSection)
                      < LineOf(SurfaceField(lines[q]), SurfaceNameSection)

\* C5: when the input file is missing, main prints the error and returns, and
\* the output file is never created, truncated or written: it is at every
\* point what it was before the run.
C5_MissingInputLeavesOutput ==
    ~inFile.exists =>
        /\ outFile = preOut
        /\ pc \in {"start", "done"}
        /\ (pc = "done" => stdout = "Error")

\* C5 witness: main has returned on a missing input, an older output file
\* being in place
C5_Witness ==
    /\ ~inFile.exists
    /\ pc = "done"
    /\ preOut = File(OldText)
    /\ outFile = File(OldText)

\* C10 as stated: at every point of a run the output file is what it was
\* before the run or holds the complete final text.
C10_NeverPartial ==
    /\ pc \in {"start", "parse", "surface", "embed"} => outFile = preOut
    /\ pc \in {"open_out", "writing", "reread", "sub", "open_final",
               "write_final", "done"} =>
           \/ outFile = preOut
           \/ outFile = File(Renumbered(ExpectedText))

\* C10 amended: the output file is what it was before the run until parse_inp
\* has returned; then it holds a prefix of the unsubstituted text while that is
\* written, the whole unsubstituted text until it is opened again, nothing
\* while it is open for the second write, and the complete final text at the
\* end.
C10_WrittenAfterPass ==
    /\ pc \in {"start", "parse", "surface", "embed", "open_out"} =>
           outFile = preOut
    /\ pc = "writing" =>
           outFile.exists /\ IsPrefix(outFile.data, ExpectedText)
    /\ pc \in {"reread", "sub", "open_final"} => outFile = File(ExpectedText)
    /\ pc = "write_final" => outFile = File(<<>>)
    /\ Finished => outFile = File(Renumbered(ExpectedText))

\* C10 witness: part of the unsubstituted text stands in the output file, in
\* place of an older file
C10_Witness ==
    /\ pc = "writing"
    /\ preOut = File(OldText)
    /\ outFile.data # <<>>
    /\ outFile.data # ExpectedText
    /\ IsPrefix(outFile.data, ExpectedText)

----------------------------------------------------------------------------
(* Properties of the substitution *)

\* C3: the substitution replaces every whole-word token S1, S2, S3, S4 by S3,
\* S4, S5, S6, each computed against the original text, and leaves every other
\* character unchanged; "S1 S2 S3 S4" becomes "S3 S4 S5 S6".
C3_SubstitutionNoCascade ==
    pc = "open_final" =>
        /\ Len(text) = Len(outFile.data)
        /\ text = Renumbered(outFile.data)
        /\ (outFile.data = ExampleIn => text = ExampleOut)

\* C3 witness: "S1 S2 S3 S4" was substituted
C3_Witness ==
    /\ pc = "open_final"
    /\ outFile.data = ExampleIn
    /\ text = ExampleOut

====
